---- MODULE Spec2Model ----
(***************************************************************************)
(* Model of src/global_health_dashboard.py: a Streamlit script that loads  *)
(* dashboard_data.json, assembles a row-per-country table, filters it by   *)
(* the per-cluster checkboxes and renders cluster profiles and the detail  *)
(* of the selected country.  Streamlit runs the whole script once at start *)
(* and once more after every widget change, so an action is one complete   *)
(* script run.                                                             *)
(***************************************************************************)
EXTENDS Integers, Sequences, FiniteSets, TLC

VARIABLES file, session, pc, exc, at, error_shown, data, df, show_clusters,
          df_filtered, chart, cards, detail, query, answer

\* file          dashboard_data.json: whether it exists, and its document
\* session       the widgets' values Streamlit keeps between runs
\* pc, exc, at   where the last run ended: "done", "stopped" (st.stop) or
\*               "error" with the uncaught exception and the section it rose in
\* error_shown   st.error was rendered (line 66)
\* data, df, show_clusters, df_filtered   the script's variables of these names
\* chart, cards, detail   what the run rendered in the chart, the cluster
\*               profiles and the country detail
\* query, answer a name put to the country detail block, and its result
vars == <<file, session, pc, exc, at, error_shown, data, df, show_clusters,
          df_filtered, chart, cards, detail, query, answer>>

(***************************************************************************)
(* Bounds of the model.                                                    *)
(***************************************************************************)
MaxCountries == 2
MaxLabels == 5
MaxIndicators == 3

(***************************************************************************)
(* JSON / Python values.  Every cell is a record of the same shape so that *)
(* cells of different Python types can be compared.  A float is kept in    *)
(* hundredths (7.86 is JNum(786)); an integer as itself.                    *)
(***************************************************************************)
None == [t |-> "none", s |-> "", v |-> 0]
JStr(s) == [t |-> "str", s |-> s, v |-> 0]
JInt(c) == [t |-> "int", s |-> "", v |-> c]
JNum(h) == [t |-> "num", s |-> "", v |-> h]

\* The numeric value of a cell, in hundredths.
Hundredths(cell) == IF cell.t = "int" THEN 100 * cell.v ELSE cell.v

\* Python ==, as list.__contains__ and Series.isin use it: 1 == 1.0, and
\* None (NaN in a float column) equals no number.
PyEq(a, b) ==
    IF a.t \in {"int", "num"} /\ b.t \in {"int", "num"}
    THEN Hundredths(a) = Hundredths(b)
    ELSE a = b

Abs(n) == IF n < 0 THEN -n ELSE n

Digit(d) == SubSeq("0123456789", d + 1, d + 1)

\* str(n) for a non-negative integer.
RECURSIVE StrOfNat(_)
StrOfNat(n) == IF n < 10 THEN Digit(n) ELSE StrOfNat(n \div 10) \o Digit(n % 10)

\* str(c) of an integer cluster id (line 79, 213, 217, 245).
StrOfInt(n) == IF n < 0 THEN "-" \o StrOfNat(-n) ELSE StrOfNat(n)

DigitVal(ch) == CHOOSE d \in 0..9 : Digit(d) = ch

\* int(i) of a decimal string (line 126).
RECURSIVE IntOfStr(_)
IntOfStr(s) ==
    IF Len(s) = 1 THEN DigitVal(s)
    ELSE 10 * IntOfStr(SubSeq(s, 1, Len(s) - 1)) + DigitVal(SubSeq(s, Len(s), Len(s)))

\* 'GDP' in ind_name (lines 228, 252): substring test, case sensitive.
Contains(name, sub) ==
    \E i \in 1..(Len(name) - Len(sub) + 1) : SubSeq(name, i, i + Len(sub) - 1) = sub

(***************************************************************************)
(* Number formatting (lines 229, 231, 253, 255).  Python rounds the exact  *)
(* binary value half-to-even; the values of ValuePool are chosen so that   *)
(* every decimal tie among them is exactly representable (x.5 for zero     *)
(* decimals, x.25 and x.75 for one decimal).                               *)
(***************************************************************************)
RoundHalfEven(n, d) ==
    LET q == n \div d
        r == n % d
    IN  IF 2 * r < d THEN q
        ELSE IF 2 * r > d THEN q + 1
        ELSE IF q % 2 = 0 THEN q ELSE q + 1

Pad3(n) == Digit(n \div 100) \o Digit((n \div 10) % 10) \o Digit(n % 10)

\* The ',' option: digits in groups of three.
RECURSIVE Group(_)
Group(n) == IF n < 1000 THEN StrOfNat(n) ELSE Group(n \div 1000) \o "," \o Pad3(n % 1000)

Sign(h) == IF h < 0 THEN "-" ELSE ""

\* f"${val:.0f}": the thousands separator forgotten.
fmt_currency_mut(cell) ==
    LET h == Hundredths(cell)
    IN  "$" \o Sign(h) \o StrOfNat(RoundHalfEven(Abs(h), 100))

\* f"${val:,.0f}"
fmt_currency(cell) ==
    LET h == Hundredths(cell)
    IN  "$" \o Sign(h) \o Group(RoundHalfEven(Abs(h), 100))

\* f"{val:.1f}"
fmt_one_decimal(cell) ==
    LET h == Hundredths(cell)
        t == RoundHalfEven(Abs(h), 10)
    IN  Sign(h) \o StrOfNat(t \div 10) \o "." \o Digit(t % 10)

\* Lines 227-231: the display of one cluster average; a null one has none.
NoDisplay == "<not rendered>"

fmt_summary(ind_name, ind_val) ==
    IF ind_val # None
    THEN IF Contains(ind_name, "GDP") THEN fmt_currency(ind_val)
         ELSE fmt_one_decimal(ind_val)
    ELSE NoDisplay

\* Lines 251-257: the display of one indicator of the selected country.
fmt_detail(ind_name, val) ==
    IF val # None
    THEN IF Contains(ind_name, "GDP") THEN fmt_currency(val)
         ELSE fmt_one_decimal(val)
    ELSE "N/A"

(***************************************************************************)
(* The documents dashboard_data.json may hold.  A Python dict whose order  *)
(* of iteration matters (embeddings, indicators, a cluster's averages) is  *)
(* a sequence of entries; cluster_labels and cluster_averages, read by     *)
(* key, are functions.  "keys" holds the top-level keys that are present.  *)
(***************************************************************************)
CountryNames == <<"Chad", "Japan", "Peru", "Fiji">>
LabelNames == <<"Developed Nations", "Least Developed", "Emerging Economies",
                "Developing Nations", "Small Islands", "Frontier", "Unassigned">>
IndicatorNames == <<"GDP per capita", "Life Expectancy", "Infant Mortality",
                    "Real GDP growth", "gdp share">>
MethodNames == <<"PCA", "UMAP">>
ValuePool == <<JNum(5200040), JNum(786), None, JNum(-4), JNum(123456750),
               JNum(25), JInt(3), JNum(99950)>>

RequiredKeys == {"countries", "clusters", "cluster_labels", "embeddings", "indicators"}
AllKeys == RequiredKeys \cup {"cluster_averages"}

PoolValue(j) == ValuePool[(j % Len(ValuePool)) + 1]

MakeLabels(k) == [key \in {StrOfInt(c) : c \in 0..(k - 1)} |-> LabelNames[IntOfStr(key) + 1]]

MakeEmbeddings(n, nm) ==
    [m \in 1..nm |->
        [name |-> MethodNames[m],
         x |-> [i \in 1..n |-> JNum(100 * (10 * m + i))],
         y |-> [i \in 1..n |-> JNum(-100 * (10 * m + i) - 50)]]]

\* ni indicators over n countries; with "clash" one more, named like the
\* table's Cluster column.
MakeIndicators(n, ni, shift, clash) ==
    [j \in 1..ni |->
        [name |-> IndicatorNames[j],
         values |-> [i \in 1..n |-> PoolValue(3 * j + i + shift)]]]
    \o (IF clash
        THEN << [name |-> "Cluster", values |-> [i \in 1..n |-> PoolValue(i + shift)]] >>
        ELSE << >>)

\* Averages for the even cluster ids only, so that some cluster has none.
MakeAverages(k, ni, shift) ==
    [key \in {StrOfInt(c) : c \in {c \in 0..(k - 1) : c % 2 = 0}} |->
        [j \in 1..ni |->
            [name |-> IndicatorNames[j], val |-> PoolValue(j + IntOfStr(key) + shift)]]]

MakeDoc(n, k, clusters, nm, ni, shift, clash, avgs) ==
    [keys |-> IF avgs THEN AllKeys ELSE RequiredKeys,
     countries |-> SubSeq(CountryNames, 1, n),
     clusters |-> clusters,
     cluster_labels |-> MakeLabels(k),
     embeddings |-> MakeEmbeddings(n, nm),
     indicators |-> MakeIndicators(n, ni, shift, clash),
     cluster_averages |-> IF avgs THEN MakeAverages(k, ni, shift) ELSE << >>]

\* range(4) of the cluster profiles loop (line 211).
NumProfiles == 4

\* Documents that vary the countries, the labelled clusters and the
\* assignment of countries to (labelled) clusters.
ClusterDocs ==
    UNION {UNION {{MakeDoc(n, k, cl, 1, 2, 0, FALSE, TRUE) : cl \in [1..n -> 0..(k - 1)]} :
                  k \in 1..MaxLabels} :
           n \in 0..MaxCountries}

SpreadClusters(n, k) == [i \in 1..n |-> (i - 1) % k]

\* Documents that vary the methods, the indicators, their values and the
\* presence of cluster_averages.
IndicatorDocs ==
    {MakeDoc(MaxCountries, NumProfiles, SpreadClusters(MaxCountries, NumProfiles),
             nm, ni, shift, clash, avgs) :
        <<nm, ni, shift, clash, avgs>> \in
            (1..Len(MethodNames)) \X (0..MaxIndicators) \X (0..(Len(ValuePool) - 1))
            \X BOOLEAN \X BOOLEAN}

BaseDoc ==
    MakeDoc(MaxCountries, NumProfiles, SpreadClusters(MaxCountries, NumProfiles),
            1, 2, 0, FALSE, TRUE)

Shorter(seq) == SubSeq(seq, 1, Len(seq) - 1)

\* Documents that break the schema: a key is missing, or one country-indexed
\* sequence is one entry short.
MalformedDocs ==
    {[BaseDoc EXCEPT !.keys = @ \ {key}] : key \in RequiredKeys}
    \cup {[BaseDoc EXCEPT !.clusters = Shorter(@)],
          [BaseDoc EXCEPT !.embeddings[1].x = Shorter(@)],
          [BaseDoc EXCEPT !.embeddings[1].y = Shorter(@)],
          [BaseDoc EXCEPT !.indicators[2].values = Shorter(@)]}

\* Documents of the right shape in which a country's cluster id has no label.
UnlabelledDocs ==
    {[BaseDoc EXCEPT !.clusters[i] = NumProfiles] : i \in 1..MaxCountries}

Docs == ClusterDocs \cup IndicatorDocs \cup MalformedDocs \cup UnlabelledDocs

(***************************************************************************)
(* Python helpers.                                                         *)
(***************************************************************************)
\* dict.get(key, {}) of a top-level key holding an ordered mapping.
GetOr(d, key, value) == IF key \in d.keys THEN value ELSE << >>

\* list.index(x): the first position (from 1) holding x, 0 for ValueError.
list_index_mut(seq, x) ==
    IF \E i \in 1..Len(seq) : seq[i] = x
    THEN CHOOSE i \in 1..Len(seq) : seq[i] = x /\ \A j \in 1..(i - 1) : seq[j] # x
    ELSE Len(seq)

list_index(seq, x) ==
    IF \E i \in 1..Len(seq) : seq[i] = x
    THEN CHOOSE i \in 1..Len(seq) : seq[i] = x /\ \A j \in 1..(i - 1) : seq[j] # x
    ELSE 0

\* sum(1 for c in data['clusters'] if c == cid) (line 214).
RECURSIVE cluster_count_mut(_, _)
cluster_count_mut(clusters, cid) ==
    IF clusters = << >> THEN 0
    ELSE (IF Head(clusters) <= cid THEN 1 ELSE 0) + cluster_count_mut(Tail(clusters), cid)

RECURSIVE cluster_count(_, _)
cluster_count(clusters, cid) ==
    IF clusters = << >> THEN 0
    ELSE (IF Head(clusters) = cid THEN 1 ELSE 0) + cluster_count(Tail(clusters), cid)

(***************************************************************************)
(* load_data (lines 60-73): the parsed document, or st.error and st.stop   *)
(* when the file is absent.  Nothing is validated.                         *)
(***************************************************************************)
NoData == [keys |-> {"<no data>"}]

load_data_mut(f) ==
    IF f.exists THEN [stopped |-> FALSE, error |-> FALSE, data |-> f.json]
    ELSE [stopped |-> FALSE, error |-> TRUE, data |-> [f.json EXCEPT !.keys = {}]]

load_data(f) ==
    IF f.exists THEN [stopped |-> FALSE, error |-> FALSE, data |-> f.json]
    ELSE [stopped |-> TRUE, error |-> TRUE, data |-> NoData]

(***************************************************************************)
(* The row table (lines 75-89): a pandas DataFrame, a mapping from column  *)
(* name to a column of cells; assigning to a name that exists replaces     *)
(* that column.                                                            *)
(***************************************************************************)
NoTable == [index |-> -1, columns |-> << >>]

Ok(frame) == [exc |-> "", df |-> frame]
Raise(e) == [exc |-> e, df |-> NoTable]

\* The column stored back to front.
Assign_mut(frame, name, values) ==
    IF Len(values) = frame.index
    THEN Ok([frame EXCEPT !.columns =
                (name :> [i \in 1..Len(values) |-> values[Len(values) + 1 - i]]) @@ @])
    ELSE Raise("ValueError")

\* df[name] = values: the values must be as many as the rows.
Assign(frame, name, values) ==
    IF Len(values) = frame.index
    THEN Ok([frame EXCEPT !.columns = (name :> values) @@ @])
    ELSE Raise("ValueError")

\* Lines 83-85.
RECURSIVE add_embeddings(_, _, _)
add_embeddings(frame, embeddings, m) ==
    IF m > Len(embeddings) THEN Ok(frame)
    ELSE LET ax == Assign(frame, embeddings[m].name \o "_x", embeddings[m].x)
         IN  IF ax.exc # "" THEN ax
             ELSE LET ay == Assign(ax.df, embeddings[m].name \o "_y", embeddings[m].y)
                  IN  IF ay.exc # "" THEN ay
                      ELSE add_embeddings(ay.df, embeddings, m + 1)

\* Lines 88-89.
RECURSIVE add_indicators(_, _, _)
add_indicators(frame, indicators, j) ==
    IF j > Len(indicators) THEN Ok(frame)
    ELSE LET a == Assign(frame, indicators[j].name, indicators[j].values)
         IN  IF a.exc # "" THEN a ELSE add_indicators(a.df, indicators, j + 1)

build_rows(d) ==
    IF "countries" \notin d.keys \/ "clusters" \notin d.keys THEN Raise("KeyError")
    ELSE IF d.clusters # << >> /\ "cluster_labels" \notin d.keys THEN Raise("KeyError")
    ELSE IF \E i \in 1..Len(d.clusters) :
               StrOfInt(d.clusters[i]) \notin DOMAIN d.cluster_labels
         THEN Raise("KeyError")
    ELSE IF Len(d.clusters) # Len(d.countries) THEN Raise("ValueError")
    ELSE IF "embeddings" \notin d.keys THEN Raise("KeyError")
    ELSE LET n == Len(d.countries)
             base == [index |-> n,
                      columns |->
                          ("Country" :> [i \in 1..n |-> JStr(d.countries[i])])
                          @@ ("Cluster" :> [i \in 1..n |-> JInt(d.clusters[i])])
                          @@ ("Cluster_Name" :>
                                [i \in 1..n |->
                                    JStr(d.cluster_labels[StrOfInt(d.clusters[i])])])]
             e == add_embeddings(base, d.embeddings, 1)
         IN  IF e.exc # "" THEN e
             ELSE add_indicators(e.df, GetOr(d, "indicators", d.indicators), 1)

\* The i-th row of a table.
Row(frame, i) == [c \in DOMAIN frame.columns |-> frame.columns[c][i]]

(***************************************************************************)
(* The sidebar (lines 107-136).  A widget returns the value the session    *)
(* holds under its key, or its default when the session holds none.        *)
(***************************************************************************)
methods(d) == [m \in 1..Len(d.embeddings) |-> d.embeddings[m].name]

\* The options of the country selectbox (line 122), as a set.
country_options(d) == {""} \cup {d.countries[i] : i \in 1..Len(d.countries)}

selected_country(d, sess) ==
    IF sess.country \in country_options(d) THEN sess.country ELSE ""

checkbox_key(i) == "c" \o i

checkbox(sess, key) == IF key \in DOMAIN sess.checks THEN sess.checks[key] ELSE TRUE

\* Line 126: {int(i): st.checkbox(name, value=True, key=f"c{i}") ...}.
show_clusters_of(d, sess) ==
    [c \in {IntOfStr(i) : i \in DOMAIN d.cluster_labels} |->
        checkbox(sess, checkbox_key(StrOfInt(c)))]

\* The session after the sidebar's widgets have been rendered.
session_after(d, sess) ==
    [checks |-> [key \in {checkbox_key(i) : i \in DOMAIN d.cluster_labels} |->
                    checkbox(sess, key)],
     country |-> selected_country(d, sess)]

(***************************************************************************)
(* The filter (lines 142-144).                                             *)
(***************************************************************************)
\* The "if show" forgotten.
visible_mut(show) == DOMAIN show

\* [c for c, show in show_clusters.items() if show]
visible(show) == {c \in DOMAIN show : show[c]}

\* Series.isin: one cell against the list of visible ids.
isin(cell, ids) == \E c \in ids : PyEq(cell, JInt(c))

\* The positions a boolean mask keeps, in order.
RECURSIVE kept(_, _)
kept(mask, i) ==
    IF i > Len(mask) THEN << >>
    ELSE (IF mask[i] THEN <<i>> ELSE << >>) \o kept(mask, i + 1)

filter_rows(frame, show) ==
    LET mask == [i \in 1..frame.index |-> isin(frame.columns["Cluster"][i], visible(show))]
        keep == kept(mask, 1)
    IN  [index |-> Len(keep),
         columns |-> [c \in DOMAIN frame.columns |->
                        [j \in 1..Len(keep) |-> frame.columns[c][keep[j]]]]]

(***************************************************************************)
(* The main chart (lines 149-206): the plotting library draws the filtered *)
(* rows on the columns of the chosen method (the radio's first option).    *)
(***************************************************************************)
NoChart == [method |-> "", points |-> -1]

main_chart(d, filtered) ==
    IF methods(d) = << >> THEN [exc |-> "ValueError", chart |-> NoChart]
    ELSE [exc |-> "", chart |-> [method |-> methods(d)[1], points |-> filtered.index]]

(***************************************************************************)
(* Cluster profiles (lines 208-234).                                       *)
(***************************************************************************)
cluster_colors == [c \in 0..3 |-> <<"#E63946", "#2A9D8F", "#E9C46A", "#6A4C93">>[c + 1]]

\* show_clusters.get(cid, True)
shown(show, cid) == IF cid \in DOMAIN show THEN show[cid] ELSE TRUE

\* data.get('cluster_averages', {}).get(str(cid), {}) (line 217).
avg_data(d, cid) ==
    IF "cluster_averages" \in d.keys /\ StrOfInt(cid) \in DOMAIN d.cluster_averages
    THEN d.cluster_averages[StrOfInt(cid)]
    ELSE << >>

\* Lines 226-232: one line per average that is not null.
RECURSIVE average_lines(_, _)
average_lines(avg, j) ==
    IF j > Len(avg) THEN << >>
    ELSE (IF fmt_summary(avg[j].name, avg[j].val) # NoDisplay
          THEN << [name |-> avg[j].name, display |-> fmt_summary(avg[j].name, avg[j].val)] >>
          ELSE << >>)
         \o average_lines(avg, j + 1)

\* Lines 213, 214 and 217: the name, count and averages of one cluster.
cluster_summary(d, cid) ==
    [name |-> d.cluster_labels[StrOfInt(cid)],
     count |-> cluster_count(d.clusters, cid),
     averages |-> avg_data(d, cid)]

\* Lines 213-234: the profile card of one cluster.
profile_card(d, cid) ==
    [cid |-> cid,
     summary |-> cluster_summary(d, cid),
     color |-> cluster_colors[cid],
     lines |-> average_lines(avg_data(d, cid), 1)]

\* for cid in range(4): the cards rendered until an exception ends the run.
RECURSIVE cluster_profiles(_, _, _, _)
cluster_profiles(d, show, cid, done) ==
    IF cid >= NumProfiles THEN [exc |-> "", cards |-> done]
    ELSE IF ~shown(show, cid) THEN cluster_profiles(d, show, cid + 1, done)
    ELSE IF StrOfInt(cid) \notin DOMAIN d.cluster_labels \/ cid \notin DOMAIN cluster_colors
         THEN [exc |-> "KeyError", cards |-> done]
    ELSE cluster_profiles(d, show, cid + 1, Append(done, profile_card(d, cid)))

(***************************************************************************)
(* Country detail (lines 236-258).                                         *)
(***************************************************************************)
\* cols = st.columns(3) (line 244).
DetailColumns == 3

NoDetail == [country |-> "", cluster_name |-> "", metrics |-> << >>]

\* Lines 247-258: a metric for each indicator while a column is left.
RECURSIVE indicator_metrics(_, _, _, _)
indicator_metrics(indicators, idx, j, i) ==
    IF j > Len(indicators) THEN << >>
    ELSE IF i < DetailColumns
         THEN << [name |-> indicators[j].name,
                  display |-> fmt_detail(indicators[j].name, indicators[j].values[idx])] >>
              \o indicator_metrics(indicators, idx, j + 1, i + 1)
         ELSE indicator_metrics(indicators, idx, j + 1, i)

country_detail(d, name) ==
    IF name = "" THEN [exc |-> "", detail |-> NoDetail]
    ELSE LET idx == list_index(d.countries, name)
         IN  IF idx = 0 THEN [exc |-> "ValueError", detail |-> NoDetail]
             ELSE [exc |-> "",
                   detail |->
                      [country |-> name,
                       cluster_name |-> d.cluster_labels[StrOfInt(d.clusters[idx])],
                       metrics |-> indicator_metrics(GetOr(d, "indicators", d.indicators),
                                                     idx, 1, 1)]]

(***************************************************************************)
(* One run of the script, top to bottom.  An uncaught exception ends the   *)
(* run; what was rendered before it stays on the page.                     *)
(***************************************************************************)
NoSession == [checks |-> << >>, country |-> ""]

Blank ==
    [pc |-> "start", exc |-> "", at |-> "", error_shown |-> FALSE, data |-> NoData,
     df |-> NoTable, show_clusters |-> << >>, df_filtered |-> NoTable,
     chart |-> NoChart, cards |-> << >>, detail |-> NoDetail, session |-> NoSession]

Run(f, sess) ==
    LET l == load_data(f)
        d == l.data
        b == build_rows(d)
        show == show_clusters_of(d, sess)
        sess2 == session_after(d, sess)
        filtered == filter_rows(b.df, show)
        ch == main_chart(d, filtered)
        p == cluster_profiles(d, show, 0, << >>)
        cd == country_detail(d, sess2.country)
        loaded == [Blank EXCEPT !.error_shown = l.error, !.data = d, !.session = sess]
        sidebar == [loaded EXCEPT !.df = b.df, !.show_clusters = show, !.session = sess2,
                                  !.df_filtered = filtered]
    IN  IF l.stopped
        THEN [Blank EXCEPT !.pc = "stopped", !.error_shown = l.error, !.session = sess]
        ELSE IF b.exc # ""
        THEN [loaded EXCEPT !.pc = "error", !.exc = b.exc, !.at = "rows"]
        ELSE IF "cluster_labels" \notin d.keys
        THEN [loaded EXCEPT !.pc = "error", !.exc = "KeyError", !.at = "sidebar", !.df = b.df]
        ELSE IF ch.exc # ""
        THEN [sidebar EXCEPT !.pc = "error", !.exc = ch.exc, !.at = "chart"]
        ELSE IF p.exc # ""
        THEN [sidebar EXCEPT !.pc = "error", !.exc = p.exc, !.at = "profiles",
                             !.chart = ch.chart, !.cards = p.cards]
        ELSE IF cd.exc # ""
        THEN [sidebar EXCEPT !.pc = "error", !.exc = cd.exc, !.at = "detail",
                             !.chart = ch.chart, !.cards = p.cards]
        ELSE [sidebar EXCEPT !.pc = "done", !.chart = ch.chart, !.cards = p.cards,
                             !.detail = cd.detail]

Render(o) ==
    /\ pc' = o.pc
    /\ exc' = o.exc
    /\ at' = o.at
    /\ error_shown' = o.error_shown
    /\ data' = o.data
    /\ df' = o.df
    /\ show_clusters' = o.show_clusters
    /\ df_filtered' = o.df_filtered
    /\ chart' = o.chart
    /\ cards' = o.cards
    /\ detail' = o.detail
    /\ session' = o.session

\* The sidebar's widgets are on the page: the run got past line 136.
SidebarRendered == pc = "done" \/ (pc = "error" /\ at \in {"chart", "profiles", "detail"})

NoAnswer == [exc |-> "<none>", detail |-> NoDetail]

Init ==
    /\ file \in {[exists |-> TRUE, json |-> d] : d \in Docs}
                \cup {[exists |-> FALSE, json |-> BaseDoc]}
    /\ session = NoSession
    /\ pc = Blank.pc
    /\ exc = Blank.exc
    /\ at = Blank.at
    /\ error_shown = Blank.error_shown
    /\ data = Blank.data
    /\ df = Blank.df
    /\ show_clusters = Blank.show_clusters
    /\ df_filtered = Blank.df_filtered
    /\ chart = Blank.chart
    /\ cards = Blank.cards
    /\ detail = Blank.detail
    /\ query = ""
    /\ answer = NoAnswer

\* The page is opened: the script runs with an empty session.
FirstRun ==
    /\ pc = "start"
    /\ Render(Run(file, session))
    /\ UNCHANGED <<file, query, answer>>

\* The user flips one cluster checkbox; the script runs again.
Toggle(key) ==
    /\ SidebarRendered
    /\ key \in DOMAIN session.checks
    /\ Render(Run(file, [session EXCEPT !.checks[key] = ~@]))
    /\ UNCHANGED <<file, query, answer>>

\* The user picks an option of the country selectbox; the script runs again.
SelectCountry(name) ==
    /\ SidebarRendered
    /\ name \in country_options(data)
    /\ name # session.country
    /\ Render(Run(file, [session EXCEPT !.country = name]))
    /\ UNCHANGED <<file, query, answer>>

Next ==
    \/ FirstRun
    \/ \E key \in {checkbox_key(StrOfInt(c)) : c \in 0..MaxLabels} : Toggle(key)
    \/ \E name \in country_options([countries |-> CountryNames]) : SelectCountry(name)

Spec == Init /\ [][Next]_vars

(***************************************************************************)
(* The country detail block as a function of the dataset and a name, on    *)
(* any name, in the dataset or not.                                        *)
(***************************************************************************)
Queries == country_options([countries |-> CountryNames]) \cup {"Atlantis"}

InitDetail ==
    /\ file \in {[exists |-> TRUE, json |-> d] : d \in ClusterDocs \cup IndicatorDocs}
    /\ query \in Queries
    /\ answer = NoAnswer
    /\ session = NoSession
    /\ pc = "query"
    /\ exc = Blank.exc
    /\ at = Blank.at
    /\ error_shown = Blank.error_shown
    /\ data = file.json
    /\ df = Blank.df
    /\ show_clusters = Blank.show_clusters
    /\ df_filtered = Blank.df_filtered
    /\ chart = Blank.chart
    /\ cards = Blank.cards
    /\ detail = Blank.detail

AskDetail ==
    /\ pc = "query"
    /\ answer' = country_detail(data, query)
    /\ pc' = "answered"
    /\ UNCHANGED <<file, session, exc, at, error_shown, data, df, show_clusters,
                   df_filtered, chart, cards, detail, query>>

NextDetail == AskDetail

DetailSpec == InitDetail /\ [][NextDetail]_vars

(***************************************************************************)
(* Properties.                                                             *)
(***************************************************************************)
\* The data model's invariant: the required keys and every country-indexed
\* sequence as long as countries.
ValidDataset(d) ==
    /\ RequiredKeys \subseteq d.keys
    /\ Len(d.clusters) = Len(d.countries)
    /\ \A m \in 1..Len(d.embeddings) :
          /\ Len(d.embeddings[m].x) = Len(d.countries)
          /\ Len(d.embeddings[m].y) = Len(d.countries)
    /\ \A j \in 1..Len(d.indicators) : Len(d.indicators[j].values) = Len(d.countries)

\* A run that got past load_data with the file present.
Loaded == file.exists /\ pc \in {"done", "error"}

CountrySet(d) == {d.countries[i] : i \in 1..Len(d.countries)}

\* C1: for every valid dataset the row table has one row per country and
\* row i holds countries[i], clusters[i], the label of clusters[i], the
\* x and y of every method at i and the value of every indicator at i.
C1_BuildRowsAligned ==
    (Loaded /\ ValidDataset(file.json)) =>
        LET d == file.json
        IN  /\ df # NoTable
            /\ df.index = Len(d.countries)
            /\ \A i \in 1..Len(d.countries) :
                  /\ Row(df, i)["Country"] = JStr(d.countries[i])
                  /\ Row(df, i)["Cluster"] = JInt(d.clusters[i])
                  /\ Row(df, i)["Cluster_Name"] =
                        JStr(d.cluster_labels[StrOfInt(d.clusters[i])])
                  /\ \A m \in 1..Len(d.embeddings) :
                        /\ Row(df, i)[d.embeddings[m].name \o "_x"] = d.embeddings[m].x[i]
                        /\ Row(df, i)[d.embeddings[m].name \o "_y"] = d.embeddings[m].y[i]
                  /\ \A j \in 1..Len(d.indicators) :
                        Row(df, i)[d.indicators[j].name] = d.indicators[j].values[i]

\* Every cluster id in use has a label.
Labelled(d) == \A i \in 1..Len(d.clusters) : StrOfInt(d.clusters[i]) \in DOMAIN d.cluster_labels

\* The names of the table's own and embedding columns.
FixedColumns(d) ==
    {"Country", "Cluster", "Cluster_Name"}
    \cup {d.embeddings[m].name \o "_x" : m \in 1..Len(d.embeddings)}
    \cup {d.embeddings[m].name \o "_y" : m \in 1..Len(d.embeddings)}

\* No indicator is named like another column of the table.
DistinctColumns(d) ==
    \A j \in 1..Len(d.indicators) : d.indicators[j].name \notin FixedColumns(d)

\* C1 as amended: the alignment of C1_BuildRowsAligned, for every valid
\* dataset in which every cluster id in use has a label and no indicator
\* is named like another column.
C1_BuildRowsAlignedDistinct ==
    (Loaded /\ ValidDataset(file.json) /\ Labelled(file.json) /\ DistinctColumns(file.json))
        => C1_BuildRowsAligned

C1_Witness ==
    /\ Loaded /\ ValidDataset(file.json) /\ Labelled(file.json) /\ DistinctColumns(file.json)
    /\ df.index = MaxCountries
    /\ Len(file.json.embeddings) = 2
    /\ Len(file.json.indicators) >= 2
    /\ \E i \in 1..df.index : Row(df, i)[file.json.indicators[1].name] = None

\* The positions of the full table whose Cluster has its toggle on.
OnRows == {i \in 1..df.index :
              \E c \in DOMAIN show_clusters :
                  show_clusters[c] /\ PyEq(df.columns["Cluster"][i], JInt(c))}

\* The j-th smallest member of a set of positions.
Nth(S, j) == CHOOSE i \in S : Cardinality({e \in S : e < i}) = j - 1

\* C2: after any toggle changes the filtered rows are the rows of the full
\* table whose Cluster has its toggle on, in the original order; none when
\* every toggle is off, the full table when every toggle is on.
C2_FilterMatchesToggles ==
    SidebarRendered =>
        /\ df_filtered.index = Cardinality(OnRows)
        /\ \A j \in 1..df_filtered.index : Row(df_filtered, j) = Row(df, Nth(OnRows, j))
        /\ (\A c \in DOMAIN show_clusters : ~show_clusters[c]) => df_filtered.index = 0
        /\ (\A c \in DOMAIN show_clusters : show_clusters[c]) => df_filtered = df

\* C2 as amended: as C2_FilterMatchesToggles, the full table with every
\* toggle on being claimed only when no indicator is named like another
\* column (the Cluster column then holds the cluster ids).
C2_FilterMatchesTogglesDistinct ==
    SidebarRendered =>
        /\ df_filtered.index = Cardinality(OnRows)
        /\ \A j \in 1..df_filtered.index : Row(df_filtered, j) = Row(df, Nth(OnRows, j))
        /\ (\A c \in DOMAIN show_clusters : ~show_clusters[c]) => df_filtered.index = 0
        /\ ((\A c \in DOMAIN show_clusters : show_clusters[c]) /\ DistinctColumns(data))
              => df_filtered = df

C2_Witness ==
    /\ SidebarRendered
    /\ \E c \in DOMAIN show_clusters : show_clusters[c]
    /\ \E c \in DOMAIN show_clusters : ~show_clusters[c]
    /\ df.index = MaxCountries
    /\ df_filtered.index > 0
    /\ df_filtered.index < df.index
    /\ Row(df_filtered, 1) = Row(df, 2)

\* C3: with the file absent the run shows the error, stops, builds no
\* table, filter, chart, profile or detail, and nothing runs it again.
C3_MissingFileHalts ==
    (~file.exists /\ pc # "start") =>
        /\ pc = "stopped"
        /\ error_shown
        /\ exc = ""
        /\ data = NoData
        /\ df = NoTable
        /\ df_filtered = NoTable
        /\ show_clusters = << >>
        /\ chart = NoChart
        /\ cards = << >>
        /\ detail = NoDetail
        /\ ~ENABLED Next

C3_Witness == ~file.exists /\ pc = "stopped" /\ error_shown

\* C4: for every document that misses a required key or holds a
\* country-indexed sequence of the wrong length, load raises
\* MalformedDataError and returns no dataset.
C4_LoadValidates ==
    (file.exists /\ pc # "start" /\ ~ValidDataset(file.json)) =>
        /\ pc = "error"
        /\ exc = "MalformedDataError"
        /\ at = "load"
        /\ data = NoData

\* The detail of the selected country of a valid dataset is on the page.
DetailRendered == pc = "done" /\ session.country # "" /\ ValidDataset(data)

SelectedIdx == CHOOSE i \in 1..Len(data.countries) : data.countries[i] = session.country

\* C5: for a country in the dataset, at index idx, the detail holds the
\* label of clusters[idx] and, for every indicator however many there are,
\* that indicator's value (or null) at idx.
C5_DetailShowsEveryIndicator ==
    DetailRendered =>
        /\ detail.country = session.country
        /\ detail.cluster_name = data.cluster_labels[StrOfInt(data.clusters[SelectedIdx])]
        /\ Len(detail.metrics) = Len(data.indicators)
        /\ \A j \in 1..Len(data.indicators) :
              /\ detail.metrics[j].name = data.indicators[j].name
              /\ (detail.metrics[j].display = "N/A")
                    <=> (data.indicators[j].values[SelectedIdx] = None)

\* C6: a null value is displayed as "N/A", never as 0 and never dropped,
\* both in the country detail and in a cluster's averages.
C6_NullShownAsNA ==
    /\ DetailRendered =>
          \A j \in 1..Len(data.indicators) :
              data.indicators[j].values[SelectedIdx] = None =>
                  \E k \in 1..Len(detail.metrics) :
                      /\ detail.metrics[k].name = data.indicators[j].name
                      /\ detail.metrics[k].display = "N/A"
    /\ \A c \in 1..Len(cards) :
          \A j \in 1..Len(cards[c].summary.averages) :
              cards[c].summary.averages[j].val = None =>
                  \E k \in 1..Len(cards[c].lines) :
                      /\ cards[c].lines[k].name = cards[c].summary.averages[j].name
                      /\ cards[c].lines[k].display = "N/A"

\* What the summary of a cluster is claimed to be.
ExpectedSummary(d, cid) ==
    [name |-> d.cluster_labels[StrOfInt(cid)],
     count |-> Cardinality({i \in 1..Len(d.clusters) : d.clusters[i] = cid}),
     averages |-> IF "cluster_averages" \in d.keys
                     /\ StrOfInt(cid) \in DOMAIN d.cluster_averages
                  THEN d.cluster_averages[StrOfInt(cid)]
                  ELSE << >>]

\* C7: for every cluster id that is a key of cluster_labels the summary
\* holds that id's label, the number of countries with that id (0 when
\* there is none) and the averages stored for that id in cluster_averages,
\* none when there is no entry; every rendered profile holds that summary.
C7_ClusterSummary ==
    SidebarRendered =>
        /\ \A key \in DOMAIN data.cluster_labels :
              cluster_summary(data, IntOfStr(key)) = ExpectedSummary(data, IntOfStr(key))
        /\ \A c \in 1..Len(cards) : cards[c].summary = ExpectedSummary(data, cards[c].cid)

C7_Witness ==
    /\ pc = "done"
    /\ \E c \in 1..Len(cards) :
          cards[c].summary.count = 0 /\ cards[c].summary.averages # << >>
    /\ \E c \in 1..Len(cards) :
          cards[c].summary.count > 0 /\ cards[c].summary.averages = << >>

\* C8: for a name that is not in countries the detail fails and returns no
\* cluster name and no indicator value; the empty selection is no error and
\* gives no detail.
C8_UnknownCountry ==
    pc = "answered" =>
        /\ (query # "" /\ query \notin CountrySet(data)) =>
              (answer.exc = "ValueError" /\ answer.detail = NoDetail)
        /\ query = "" => (answer.exc = "" /\ answer.detail = NoDetail)
        /\ query \in CountrySet(data) => (answer.exc = "" /\ answer.detail.country = query)

C8_Witness ==
    /\ pc = "answered"
    /\ query # ""
    /\ query \notin CountrySet(data)
    /\ Len(data.countries) = MaxCountries
    /\ answer.exc = "ValueError"

\* C10: the profile cards rendered are those of the cluster ids of
\* cluster_labels whose toggle is on, whatever their number, and rendering
\* them never fails on a missing label or colour.
C10_ProfilesMatchLabels ==
    SidebarRendered =>
        /\ ~(pc = "error" /\ at = "profiles")
        /\ {cards[c].cid : c \in 1..Len(cards)}
              = {IntOfStr(key) : key \in {k \in DOMAIN data.cluster_labels :
                                            show_clusters[IntOfStr(k)]}}

(***************************************************************************)
(* What a display is claimed to look like, read back from its characters.  *)
(***************************************************************************)
Char(s, i) == SubSeq(s, i, i)

IsDigit(ch) == \E d \in 0..9 : Digit(d) = ch

RECURSIVE StripCommas(_)
StripCommas(s) ==
    IF s = "" THEN ""
    ELSE (IF Char(s, 1) = "," THEN "" ELSE Char(s, 1)) \o StripCommas(SubSeq(s, 2, Len(s)))

\* Digits without a leading zero, "0" itself apart.
IsNatural(s) ==
    /\ Len(s) >= 1
    /\ \A i \in 1..Len(s) : IsDigit(Char(s, i))
    /\ (Len(s) > 1 => Char(s, 1) # "0")

\* "$", the sign, and the whole number nearest to h hundredths, its digits
\* in groups of three set off by commas, with no decimal point.
IsCurrencyOf(s, h) ==
    LET pre == IF h < 0 THEN "$-" ELSE "$"
        body == SubSeq(s, Len(pre) + 1, Len(s))
    IN  /\ SubSeq(s, 1, Len(pre)) = pre
        /\ \A i \in 1..Len(body) : (Char(body, i) = ",") <=> ((Len(body) - i + 1) % 4 = 0)
        /\ IsNatural(StripCommas(body))
        /\ Abs(100 * IntOfStr(StripCommas(body)) - Abs(h)) <= 50

\* The sign and the number of tenths nearest to h hundredths, with exactly
\* one digit after the decimal point.
IsOneDecimalOf(s, h) ==
    LET pre == IF h < 0 THEN "-" ELSE ""
        body == SubSeq(s, Len(pre) + 1, Len(s))
        whole == SubSeq(body, 1, Len(body) - 2)
        tenth == Char(body, Len(body))
    IN  /\ SubSeq(s, 1, Len(pre)) = pre
        /\ Len(body) >= 3
        /\ Char(body, Len(body) - 1) = "."
        /\ IsNatural(whole)
        /\ IsDigit(tenth)
        /\ Abs(10 * IntOfStr(whole \o tenth) - Abs(h)) <= 5

\* The indicator names of the model that contain "GDP".
GDPNames == {"GDP per capita", "Real GDP growth"}

FollowsRule(name, val, display) ==
    IF name \in GDPNames THEN IsCurrencyOf(display, Hundredths(val))
    ELSE IsOneDecimalOf(display, Hundredths(val))

\* The displays of the page with the name and value each was made from.
Displayed ==
    {[name |-> c[1].summary.averages[c[2]].name, val |-> c[1].summary.averages[c[2]].val,
      display |-> c[1].lines[c[3]].display, place |-> "summary"] :
        c \in {x \in UNION {{<<cards[i], j, k>> : j \in 1..Len(cards[i].summary.averages),
                                                  k \in 1..Len(cards[i].lines)} :
                           i \in 1..Len(cards)} :
                  /\ x[1].summary.averages[x[2]].val # None
                  /\ x[1].lines[x[3]].name = x[1].summary.averages[x[2]].name}}
    \cup (IF DetailRendered
          THEN {[name |-> detail.metrics[k].name,
                 val |-> data.indicators[k].values[SelectedIdx],
                 display |-> detail.metrics[k].display, place |-> "detail"] :
                    k \in {k \in 1..Len(detail.metrics) :
                             data.indicators[k].values[SelectedIdx] # None}}
          ELSE {})

\* C9: a non-null number is displayed by a rule its indicator's name alone
\* selects: currency with no decimals and thousands separators when the
\* name contains "GDP", one decimal otherwise; the cluster summary and the
\* country detail display the same value of the same indicator alike
\* (52000.4 of "GDP per capita" as "$52,000", 7.86 of "Life Expectancy" as
\* "7.9").
C9_FormatRule ==
    /\ \A c \in 1..Len(cards) :
          \A j \in 1..Len(cards[c].summary.averages) :
              cards[c].summary.averages[j].val # None =>
                  \E k \in 1..Len(cards[c].lines) :
                      cards[c].lines[k].name = cards[c].summary.averages[j].name
    /\ \A e \in Displayed :
          /\ FollowsRule(e.name, e.val, e.display)
          /\ (e.name = "GDP per capita" /\ e.val = JNum(5200040)) => e.display = "$52,000"
          /\ (e.name = "Life Expectancy" /\ e.val = JNum(786)) => e.display = "7.9"
          /\ \A f \in Displayed : (f.name = e.name /\ f.val = e.val) => f.display = e.display

C9_Witness ==
    /\ \E e \in Displayed : e.place = "summary" /\ e.display = "$52,000"
    /\ \E e \in Displayed : e.place = "summary" /\ e.display = "7.9"
    /\ \E e \in Displayed : e.place = "detail" /\ e.name \in GDPNames
    /\ \E e \in Displayed : e.place = "detail" /\ e.name \notin GDPNames

====
